---- MODULE Spec2Model ----
(***************************************************************************)
(* Model of streamlit_app.py: a page script that the framework re-executes *)
(* top to bottom on every user interaction ("render pass").  One action,   *)
(* RenderPass, is one execution of the script for one browser session; the *)
(* only state that survives a pass is the cache of load_model (process     *)
(* wide) and each session's widget values.  The artifact file on disk is   *)
(* the environment and may change between passes.                          *)
(*                                                                         *)
(* Numbers are fixed point: porosity in units of 1e-4, diffusivity in      *)
(* units of 1e-10, predictions in units of 1e-3 percent.  Formatted text   *)
(* is a sequence of one-character strings.                                 *)
(***************************************************************************)
EXTENDS Integers, Sequences, FiniteSets, TLC

\* ---------------------------------------------------------------- bounds
\* Browser sessions served by the one process (they share only the cache),
\* and the number of times storage may be read while nothing is cached.
NumSessions == 1
MaxReads == 2

\* ------------------------------------------------------ program constants
PorosityMin == 0
PorosityMax == 10000
PorosityDefault == 3650
DiffusivityMin == 10
DiffusivityMax == 10000
DiffusivityDefault == 950

Sessions == 1..NumSessions

\* Values a user can commit in the two number inputs: the controls only hand
\* the script values inside their inclusive ranges.  9996 (9.996e-7) is a value
\* that the two-decimal scientific format rounds, with a carry, to 1.00e-06.
Porosities == {PorosityDefault, PorosityMax}
Diffusivities == {DiffusivityDefault, 9996}

\* What can be on disk at the fixed artifact path.
Models == {"model"}
Artifacts == {"absent", "corrupt"} \cup Models
NoModel == "none"

\* What the opaque regressor can hand back from predict.
Outputs == {<<>>, <<95000>>, <<91237, 95000>>}

\* Where the prediction block can raise, besides the IndexError of an
\* empty output: "none" is the run without a fault.
Faults == {"none", "construct", "predict", "render", "metric"}

\* ------------------------------------------------------------ formatting
Digit(n) == <<"0", "1", "2", "3", "4", "5", "6", "7", "8", "9">>[n + 1]

RECURSIVE IntStr(_)
IntStr(n) == IF n < 10 THEN <<Digit(n)>> ELSE IntStr(n \div 10) \o <<Digit(n % 10)>>

\* f"{porosity:.3f}" and format="%.3f": three decimals, rounded to nearest.
Fmt3f(p) ==
  LET r == (p + 5) \div 10
  IN  IntStr(r \div 1000) \o <<".", Digit((r \div 100) % 10), Digit((r \div 10) % 10), Digit(r % 10)>>

\* f"{diffusivity:.2e}" and format="%.2e": two-decimal scientific notation.
Fmt2e(d) ==
  LET k0 == IF d < 100 THEN 1 ELSE IF d < 1000 THEN 2 ELSE IF d < 10000 THEN 3 ELSE 4
      m0 == IF k0 = 1 THEN d * 10
            ELSE IF k0 = 2 THEN d
            ELSE IF k0 = 3 THEN (d + 5) \div 10
            ELSE (d + 50) \div 100
      k == IF m0 >= 1000 THEN k0 + 1 ELSE k0
      m == IF m0 >= 1000 THEN 100 ELSE m0
  IN  <<Digit(m \div 100), ".", Digit((m \div 10) % 10), Digit(m % 10), "e", "-", "0", Digit(10 - k)>>

\* f"{prediction_value:.2f}%"
Fmt2fPercent(v) ==
  LET r == (v + 5) \div 10
  IN  IntStr(r \div 100) \o <<".", Digit((r \div 10) % 10), Digit(r % 10), "%">>

\* ---------------------------------------------------------- page elements
El(kind, label, text) == [kind |-> kind, label |-> label, text |-> text]

Count(pg, kind) == Cardinality({i \in DOMAIN pg : pg[i].kind = kind})
Has(pg, kind, label) == \E i \in DOMAIN pg : pg[i].kind = kind /\ pg[i].label = label
TextOf(pg, kind, label) == {pg[i].text : i \in {j \in DOMAIN pg : pg[j].kind = kind /\ pg[j].label = label}}

Header ==
  <<El("title", "Battery capacity predictor", <<>>),
    El("markdown", "tagline", <<>>),
    El("markdown", "---", <<>>)>>

\* ------------------------------------------------------------ load_model
\* The body of load_model, one read of storage: the handle, the messages it
\* emitted, whether it left through st.stop(), and which branch it took.
load_model_OneHandler(art) ==
  IF art \in Models
  THEN [model |-> art, msgs |-> <<>>, stop |-> FALSE, via |-> "loaded"]
  ELSE [model |-> NoModel,
        msgs |-> <<El("error", "load", <<"battery_model.pkl not found">>),
                   El("error", "load", <<"train and save the model first">>)>>,
        stop |-> TRUE, via |-> art]

load_model_NoStop(art) ==
  IF art \in Models
  THEN [model |-> art, msgs |-> <<>>, stop |-> FALSE, via |-> "loaded"]
  ELSE IF art = "absent"
  THEN [model |-> NoModel,
        msgs |-> <<El("error", "load", <<"battery_model.pkl not found">>),
                   El("error", "load", <<"train and save the model first">>)>>,
        stop |-> FALSE, via |-> "absent"]
  ELSE [model |-> NoModel,
        msgs |-> <<El("error", "load", <<"error while loading the model: ", "unpickling error">>)>>,
        stop |-> TRUE, via |-> "corrupt"]

load_model(art) ==
  IF art \in Models
  THEN [model |-> art, msgs |-> <<>>, stop |-> FALSE, via |-> "loaded"]
  ELSE IF art = "absent"
  THEN [model |-> NoModel,
        msgs |-> <<El("error", "load", <<"battery_model.pkl not found">>),
                   El("error", "load", <<"train and save the model first">>)>>,
        stop |-> TRUE, via |-> "absent"]
  ELSE [model |-> NoModel,
        msgs |-> <<El("error", "load", <<"error while loading the model: ", "unpickling error">>)>>,
        stop |-> TRUE, via |-> "corrupt"]

\* @st.cache_resource: a stored handle is returned without running the body;
\* a body that leaves through st.stop() stores nothing.
Miss(c, r) ==
  [model |-> r.model, msgs |-> r.msgs, stop |-> r.stop, read |-> TRUE, load |-> r.via,
   cache |-> IF r.stop THEN c ELSE r.model]

cache_resource_NoCache(c, art) == Miss(c, load_model(art))

cache_resource(c, art) ==
  IF c # NoModel
  THEN [model |-> c, msgs |-> <<>>, stop |-> FALSE, read |-> FALSE, load |-> "cached",
        cache |-> c]
  ELSE Miss(c, load_model(art))

\* --------------------------------------------------------------- sidebar
Sidebar(p, d) ==
  <<El("header", "Input parameters", <<>>),
    El("markdown", "sidebar help", <<>>),
    El("number_input", "Porosity", Fmt3f(p)),
    El("number_input", "Effective diffusivity", Fmt2e(d)),
    El("button", "Predict", <<>>)>>

\* st.sidebar.button: True only in the pass its click caused.
predict_button(trigger) == trigger = "button"

\* ----------------------------------------------------- prediction block
NoRecord == [none |-> <<>>]

input_data_WrongColumn(p, d) == [Porosity |-> <<p>>, Diffusivity |-> <<d>>]

input_data(p, d) == [Porosity |-> <<p>>, diffusivity |-> <<d>>]

\* except Exception: every exception class the block's steps raise derives
\* from Exception.
ExceptionClasses == {"ValueError", "IndexError", "TypeError", "StreamlitAPIException"}

Caught_OnlyValueError(cls) == cls = "ValueError"

Caught(cls) == cls \in ExceptionClasses

Raised(cls, msg) == [raised |-> TRUE, cls |-> cls, msg |-> msg]
NotRaised == [raised |-> FALSE, cls |-> "", msg |-> ""]

ResultElems(v) ==
  <<El("subheader", "Prediction result", <<>>),
    El("result", "Expected battery capacity", Fmt2fPercent(v))>>

InputMetrics_Stale(p, d) ==
  <<El("subheader", "Input check", <<>>),
    El("metric", "Porosity", Fmt3f(PorosityDefault)),
    El("metric", "Diffusivity", Fmt2e(DiffusivityDefault))>>

InputMetrics(p, d) ==
  <<El("subheader", "Input check", <<>>),
    El("metric", "Porosity", Fmt3f(p)),
    El("metric", "Diffusivity", Fmt2e(d))>>

\* The try body, step by step: what was emitted, whether predict was
\* called and with what, and the exception that ended it, if any.
TryBody(model, p, d, fault, out) ==
  IF fault = "construct"
  THEN [elems |-> <<>>, calls |-> 0, record |-> NoRecord, output |-> <<>>,
        exc |-> Raised("ValueError", "construct")]
  ELSE IF fault = "predict"
  THEN [elems |-> <<>>, calls |-> 1, record |-> input_data(p, d), output |-> <<>>,
        exc |-> Raised("ValueError", "predict")]
  ELSE IF Len(out) = 0
  THEN [elems |-> <<>>, calls |-> 1, record |-> input_data(p, d), output |-> out,
        exc |-> Raised("IndexError", "index 0 is out of bounds")]
  ELSE IF fault = "render"
  THEN [elems |-> <<El("subheader", "Prediction result", <<>>)>>,
        calls |-> 1, record |-> input_data(p, d), output |-> out,
        exc |-> Raised("TypeError", "unsupported format string")]
  ELSE IF fault = "metric"
  THEN [elems |-> ResultElems(out[1]) \o <<El("subheader", "Input check", <<>>)>>,
        calls |-> 1, record |-> input_data(p, d), output |-> out,
        exc |-> Raised("StreamlitAPIException", "metric")]
  ELSE [elems |-> ResultElems(out[1]) \o InputMetrics(p, d),
        calls |-> 1, record |-> input_data(p, d), output |-> out,
        exc |-> NotRaised]

\* try ... except Exception as e: st.error(...)
Except_Rethrow(t) ==
  IF ~t.exc.raised
  THEN [elems |-> t.elems, calls |-> t.calls, record |-> t.record,
        output |-> t.output, raised |-> FALSE, crashed |-> FALSE]
  ELSE [elems |-> t.elems \o <<El("error", "predict", <<"error during prediction: ", t.exc.msg>>),
                                El("exception", t.exc.cls, <<t.exc.msg>>)>>,
        calls |-> t.calls, record |-> t.record, output |-> t.output,
        raised |-> TRUE, crashed |-> TRUE]

Except(t) ==
  IF ~t.exc.raised
  THEN [elems |-> t.elems, calls |-> t.calls, record |-> t.record,
        output |-> t.output, raised |-> FALSE, crashed |-> FALSE]
  ELSE IF Caught(t.exc.cls)
  THEN [elems |-> t.elems \o <<El("error", "predict", <<"error during prediction: ", t.exc.msg>>)>>,
        calls |-> t.calls, record |-> t.record, output |-> t.output,
        raised |-> TRUE, crashed |-> FALSE]
  ELSE [elems |-> t.elems \o <<El("exception", t.exc.cls, <<t.exc.msg>>)>>,
        calls |-> t.calls, record |-> t.record, output |-> t.output,
        raised |-> TRUE, crashed |-> TRUE]

PredictBlock(model, p, d, fault, out) == Except(TryBody(model, p, d, fault, out))

ExampleBlock ==
  [elems |-> <<El("info", "enter values and click Predict", <<>>),
               El("subheader", "Input example", <<>>),
               El("table", "example_data", <<>>)>>,
   calls |-> 0, record |-> NoRecord, output |-> <<>>, raised |-> FALSE, crashed |-> FALSE]

\* with col1: if predict_button: ... else: ...
MainColumn_AlwaysPredict(pressed, model, p, d, fault, out) ==
  PredictBlock(model, p, d, fault, out)

MainColumn_Eager(pressed, model, p, d, fault, out) ==
  IF pressed THEN PredictBlock(model, p, d, fault, out)
  ELSE [ExampleBlock EXCEPT !.calls = 1, !.record = input_data(p, d)]

MainColumn(pressed, model, p, d, fault, out) ==
  IF pressed THEN PredictBlock(model, p, d, fault, out) ELSE ExampleBlock

InfoColumn ==
  <<El("subheader", "Model description", <<>>),
    El("metric", "Cathode active material", <<"NCM811">>),
    El("metric", "Binder", <<"PVDF">>),
    El("metric", "Conductive additive", <<"Super P-Li">>),
    El("metric", "Slurry composition", <<"94:3:3">>)>>

Footer ==
  <<El("markdown", "---", <<>>),
    El("expander", "Usage guide", <<>>),
    El("expander", "Model information", <<>>),
    El("markdown", "---", <<>>),
    El("markdown", "footer", <<>>)>>

\* ------------------------------------------------------- the whole script
\* st.success(...) right after model = load_model(): on every pass that gets
\* a handle, read or cached.
SuccessBanner_OnlyOnRead(ld) ==
  IF ld.read THEN <<El("success", "model loaded", <<>>)>> ELSE <<>>

SuccessBanner(ld) == <<El("success", "model loaded", <<>>)>>

\* The lines after a successful load_model: success message, sidebar,
\* the two columns, the expanders and the footer.  An exception that leaves
\* the prediction block ends the script there.
Body(ld, col, p, d) ==
  IF col.crashed
  THEN [page |-> Header \o ld.msgs \o SuccessBanner(ld) \o Sidebar(p, d) \o col.elems,
        cache |-> ld.cache, read |-> ld.read, load |-> ld.load,
        model |-> ld.model, outcome |-> "crashed",
        calls |-> col.calls, record |-> col.record, output |-> col.output,
        raised |-> col.raised]
  ELSE [page |-> Header \o ld.msgs \o SuccessBanner(ld) \o Sidebar(p, d)
                  \o col.elems \o InfoColumn \o Footer,
        cache |-> ld.cache, read |-> ld.read, load |-> ld.load,
        model |-> ld.model, outcome |-> "completed",
        calls |-> col.calls, record |-> col.record, output |-> col.output,
        raised |-> col.raised]

\* model = load_model(), then either st.stop() or the rest of the script.
Loaded(ld, p, d, trigger, fault, out) ==
  IF ld.stop
  THEN [page |-> Header \o ld.msgs, cache |-> ld.cache, read |-> ld.read, load |-> ld.load,
        model |-> NoModel, outcome |-> "stopped",
        calls |-> 0, record |-> NoRecord, output |-> <<>>, raised |-> FALSE]
  ELSE Body(ld, MainColumn(predict_button(trigger), ld.model, p, d, fault, out), p, d)

\* One execution of the script: the page it renders, the cache it leaves,
\* and what it did on the way.
Script(c, art, p, d, trigger, fault, out) ==
  Loaded(cache_resource(c, art), p, d, trigger, fault, out)

\* ------------------------------------------------------------------ state
VARIABLES
  artifact,      \* what is stored at 'battery_model.pkl'
  cache,         \* the handle held by st.cache_resource, or NoModel
  storageReads,  \* how many times joblib.load has run in this process
  deserialized,  \* how many of those returned a model
  widget,        \* per session: the values of the two number inputs
  screen,        \* per session: what its browser currently displays
  page,          \* the elements rendered by the most recent pass
  last           \* what the most recent pass did

vars == <<artifact, cache, storageReads, deserialized, widget, screen, page, last>>

FormShown(pg) ==
  /\ Has(pg, "number_input", "Porosity")
  /\ Has(pg, "number_input", "Effective diffusivity")
  /\ Has(pg, "button", "Predict")

\* What a rendered page amounts to for the user looking at it.
PageSummary(pg) ==
  IF pg = <<>> THEN "blank"
  ELSE IF ~FormShown(pg) THEN "noform"
  ELSE IF Has(pg, "error", "predict") THEN "failed"
  ELSE IF Count(pg, "result") > 0 THEN "result"
  ELSE "example"

Init ==
  /\ artifact \in Artifacts
  /\ cache = NoModel
  /\ storageReads = 0
  /\ deserialized = 0
  /\ widget = [s \in Sessions |-> [porosity |-> PorosityDefault, diffusivity |-> DiffusivityDefault]]
  /\ screen = [s \in Sessions |-> "blank"]
  /\ page = <<>>
  /\ last = [sid |-> 0, pressed |-> FALSE, load |-> "none",
             model |-> NoModel, outcome |-> "none", calls |-> 0, record |-> NoRecord,
             output |-> <<>>, raised |-> FALSE, prev |-> "blank"]

\* The environment replaces, removes or damages the artifact file.
ArtifactChange ==
  /\ \E a \in Artifacts \ {artifact} : artifact' = a
  /\ UNCHANGED <<cache, storageReads, deserialized, widget, screen, page, last>>

\* One execution of the script for session s with the widget values p, d.
RenderPass(s, p, d, trigger, fault, out) ==
  /\ cache = NoModel => storageReads < MaxReads
  /\ \E r \in {Script(cache, artifact, p, d, trigger, fault, out)} :
         /\ cache' = r.cache
         /\ storageReads' = IF r.read THEN storageReads + 1 ELSE storageReads
         /\ deserialized' = IF r.read /\ r.load = "loaded" THEN deserialized + 1 ELSE deserialized
         /\ widget' = [widget EXCEPT ![s] = [porosity |-> p, diffusivity |-> d]]
         /\ screen' = [screen EXCEPT ![s] = PageSummary(r.page)]
         /\ page' = r.page
         /\ last' = [sid |-> s, pressed |-> predict_button(trigger),
                     load |-> r.load,
                     model |-> r.model, outcome |-> r.outcome, calls |-> r.calls,
                     record |-> r.record, output |-> r.output, raised |-> r.raised,
                     prev |-> screen[s]]
  /\ UNCHANGED artifact

HasForm(s) == screen[s] \in {"example", "result", "failed"}

\* The page is opened or reloaded: the script runs with the session's values.
Rerun ==
  \E s \in Sessions :
    RenderPass(s, widget[s].porosity, widget[s].diffusivity, "rerun", "none", <<>>)

\* The user commits a new value in the porosity input.
EditPorosity ==
  \E s \in Sessions, v \in Porosities :
    /\ HasForm(s)
    /\ v # widget[s].porosity
    /\ RenderPass(s, v, widget[s].diffusivity, "porosity", "none", <<>>)

\* The user commits a new value in the diffusivity input.
EditDiffusivity ==
  \E s \in Sessions, v \in Diffusivities :
    /\ HasForm(s)
    /\ v # widget[s].diffusivity
    /\ RenderPass(s, widget[s].porosity, v, "diffusivity", "none", <<>>)

\* The user clicks the predict button; the opaque model and the libraries
\* decide whether a step raises and what predict returns.
ClickPredict ==
  \E s \in Sessions, fault \in Faults, out \in Outputs :
    /\ HasForm(s)
    /\ fault \in {"construct", "predict"} => out = <<>>
    /\ RenderPass(s, widget[s].porosity, widget[s].diffusivity, "button", fault, out)

Next ==
  \/ ArtifactChange
  \/ Rerun
  \/ EditPorosity
  \/ EditDiffusivity
  \/ ClickPredict

Spec == Init /\ [][Next]_vars

\* ----------------------------------------------------------- properties
Ran == last.sid # 0
GotHandle == last.load \in {"cached", "loaded"}
Values == widget[last.sid]
PageTail == InfoColumn \o Footer
TailRendered(pg) ==
  /\ Len(pg) >= Len(PageTail)
  /\ SubSeq(pg, Len(pg) - Len(PageTail) + 1, Len(pg)) = PageTail
NoFormAt(pg) ==
  /\ Count(pg, "number_input") = 0
  /\ Count(pg, "button") = 0

\* C1: a pass with a loaded model and the button pressed, for values inside
\* the two input ranges, ends with a displayed percentage or with the caught
\* error message of the prediction block, whichever step raised; the script
\* is never ended by an exception leaving the block.
ThmC1 ==
  (Ran /\ last.pressed /\ GotHandle) =>
    /\ Values.porosity \in PorosityMin..PorosityMax
    /\ Values.diffusivity \in DiffusivityMin..DiffusivityMax
    /\ last.outcome = "completed"
    /\ Count(page, "exception") = 0
    /\ Count(page, "result") = 1 \/ Has(page, "error", "predict")
    /\ last.raised <=> Has(page, "error", "predict")

\* A pressed pass in which rendering raised after the result was displayed.
WitC1 ==
  /\ Ran /\ last.pressed /\ last.raised
  /\ Count(page, "result") = 1
  /\ Values.porosity = PorosityMax

\* C2: a pass whose load_model finds no artifact file emits exactly two error
\* messages, both from load_model, and stops: no success message, no number
\* input, no button, no prediction, no example table.
ThmC2 ==
  (Ran /\ last.load = "absent") =>
    /\ Count(page, "error") = 2
    /\ TextOf(page, "error", "load") =
         {<<"battery_model.pkl not found">>, <<"train and save the model first">>}
    /\ last.outcome = "stopped"
    /\ Count(page, "success") = 0
    /\ NoFormAt(page)
    /\ Count(page, "result") = 0
    /\ Count(page, "table") = 0
    /\ last.calls = 0
    /\ cache = NoModel

WitC2 == Ran /\ last.load = "absent" /\ storageReads = 2

\* C3 as stated: a failed deserialization is reported by two error messages
\* and rendering stops before the form.
OrigC3 ==
  (Ran /\ last.load = "corrupt") =>
    /\ Count(page, "error") = 2
    /\ last.outcome = "stopped"
    /\ NoFormAt(page)

\* C3 amended: a failed deserialization is reported by exactly one error
\* message, which carries the exception's description, and rendering stops
\* before the success message and the form.
ThmC3 ==
  (Ran /\ last.load = "corrupt") =>
    /\ Count(page, "error") = 1
    /\ TextOf(page, "error", "load") = {<<"error while loading the model: ", "unpickling error">>}
    /\ last.outcome = "stopped"
    /\ Count(page, "success") = 0
    /\ NoFormAt(page)
    /\ Count(page, "table") = 0
    /\ last.calls = 0
    /\ cache = NoModel

WitC3 == Ran /\ last.load = "corrupt" /\ Count(page, "error") = 1

ThmC5 ==
  (Ran /\ ~last.pressed /\ GotHandle) =>
    /\ Count(page, "table") = 1
    /\ Count(page, "result") = 0
    /\ ~Has(page, "metric", "Porosity")
    /\ ~Has(page, "metric", "Diffusivity")
    /\ Count(page, "error") = 0
    /\ screen[last.sid] = "example"

\* The session displayed a result and is rendered again without a click.
WitC5 ==
  /\ Ran /\ ~last.pressed /\ last.prev = "result"
  /\ Count(page, "table") = 1

\* C6: a pass that runs while a valid artifact is present shows exactly one
\* success message and the whole form, whether the model is read in this
\* pass or comes from the cache.
ThmC6 ==
  [][(artifact \in Models /\ artifact' = artifact) =>
       /\ last'.load \in {"cached", "loaded"}
       /\ Count(page', "success") = 1
       /\ FormShown(page')
       /\ Count(page', "number_input") = 2
       /\ Count(page', "button") = 1]_vars

WitC6 ==
  /\ Ran /\ last.load = "cached" /\ artifact \in Models
  /\ Count(page, "success") = 1 /\ FormShown(page)

\* C7: a pass whose prediction block raised shows exactly one error message,
\* renders the rest of the page and leaves the cached handle in place; the
\* next click of that session attempts inference afresh: predict is called
\* once with the current form values, unless the record construction of
\* that pass raises in its turn.
ThmC7 ==
  /\ (Ran /\ last.raised) =>
       /\ Count(page, "error") = 1
       /\ last.outcome = "completed"
       /\ TailRendered(page)
       /\ FormShown(page)
       /\ cache = last.model /\ cache # NoModel
       /\ screen[last.sid] = "failed"
  /\ (Ran /\ last.prev = "failed" /\ last.pressed) =>
       \/ last.calls = 1 /\ last.record = input_data(Values.porosity, Values.diffusivity)
       \/ last.calls = 0 /\ last.raised

\* A click that succeeds right after a click that failed.
WitC7 ==
  /\ Ran /\ last.prev = "failed" /\ last.pressed
  /\ last.calls = 1 /\ ~last.raised
  /\ Count(page, "result") = 1

\* C8: in a pass that displays a result, the echoed metrics are the formatted
\* porosity and diffusivity of that pass, the same values that are in the
\* record handed to predict.
ThmC8 ==
  (Ran /\ Count(page, "result") > 0) =>
    /\ TextOf(page, "metric", "Porosity") \subseteq {Fmt3f(Values.porosity)}
    /\ TextOf(page, "metric", "Diffusivity") \subseteq {Fmt2e(Values.diffusivity)}
    /\ ~last.raised =>
         /\ Has(page, "metric", "Porosity")
         /\ Has(page, "metric", "Diffusivity")
    /\ last.record = input_data(Values.porosity, Values.diffusivity)

\* A result for values that are not the defaults; the diffusivity is shown
\* rounded.
WitC8 ==
  /\ Ran /\ Count(page, "result") = 1 /\ ~last.raised
  /\ Values.porosity = PorosityMax /\ Values.diffusivity = 9996
  /\ TextOf(page, "metric", "Porosity") = {<<"1", ".", "0", "0", "0">>}
  /\ TextOf(page, "metric", "Diffusivity") = {<<"1", ".", "0", "0", "e", "-", "0", "6">>}

\* C9: the record handed to predict has the two columns 'Porosity' and
\* 'diffusivity', one row, the current form values; a displayed result is
\* the first element of what predict returned, as a two-decimal percentage.
ThmC9 ==
  (Ran /\ last.calls > 0) =>
    /\ last.pressed
    /\ DOMAIN last.record = {"Porosity", "diffusivity"}
    /\ last.record.Porosity = <<Values.porosity>>
    /\ last.record.diffusivity = <<Values.diffusivity>>
    /\ Count(page, "result") > 0 =>
         /\ Len(last.output) >= 1
         /\ TextOf(page, "result", "Expected battery capacity") = {Fmt2fPercent(last.output[1])}

\* predict returned two values and the first one is displayed.
WitC9 ==
  /\ Ran /\ last.calls = 1 /\ Len(last.output) = 2
  /\ TextOf(page, "result", "Expected battery capacity") = {<<"9", "1", ".", "2", "4", "%">>}

\* C10: predict is called at most once in a pass, and only in a pass that
\* got a handle from load_model and was caused by the button.
ThmC10 ==
  Ran =>
    /\ last.calls \in {0, 1}
    /\ last.calls = 1 => (last.pressed /\ GotHandle /\ last.model \in Models)
    /\ ~last.pressed => last.calls = 0
    /\ ~GotHandle => last.calls = 0

\* A click whose record construction raised: pressed, and predict not called.
WitC10 ==
  /\ Ran /\ last.pressed /\ last.calls = 0 /\ last.raised
  /\ last.prev = "result"

====
